---- MODULE Spec2Model ----
(***************************************************************************)
(* Model of the pack synchroniser in src/main.rs: the two-round AES-GCM    *)
(* envelope (encrypt_pack_data / decrypt_pack_data), the identity parser   *)
(* (extract_repo_info), and the commands cmd_up, cmd_down and cmd_s acting *)
(* on git repositories and one object-storage bucket.                      *)
(*                                                                         *)
(* Byte strings are sequences of 0..255.  Text is a sequence of one-       *)
(* character strings.  Object ids are natural numbers whose to_string() is *)
(* their 40-digit lower-case hexadecimal form.                             *)
(***************************************************************************)
EXTENDS Integers, Sequences, FiniteSets, TLC

VARIABLES
    \* envelope machine: one plaintext, the blob encrypt produced for it,
    \* the bytes handed to decrypt and what decrypt returned
    cpc, cS, cP, cBlob, cIn, cOut,
    \* identity machine: the origin remote of a repository and what
    \* extract_repo_info returned for it
    ipc, iRemote, iInfo,
    \* sync machine: the repository of each machine, the bucket, the wall
    \* clock, the number of commands run, the last command's outcome, and for
    \* each key who wrote it (history, read by no command)
    repo, bucket, clock, nops, last, sent

cvars == <<cpc, cS, cP, cBlob, cIn, cOut>>

ivars == <<ipc, iRemote, iInfo>>

svars == <<repo, bucket, clock, nops, last, sent>>

vars == <<cpc, cS, cP, cBlob, cIn, cOut, ipc, iRemote, iInfo,
          repo, bucket, clock, nops, last, sent>>

-----------------------------------------------------------------------------
(* Bounds of the model *)

\* longest pack payload P drawn for the envelope machine
MaxPayload == 1

\* most path segments of an origin URL drawn for the identity machine
MaxSegs == 3

\* the clock runs from 0 to MaxTime seconds
MaxTime == 1

\* most commands run against the bucket in one behaviour
MaxOps == 2

-----------------------------------------------------------------------------
(* Bytes and slices *)

RECURSIVE XorBits(_, _)
XorBits(a, b) ==
    IF a = 0 THEN b
    ELSE IF b = 0 THEN a
    ELSE (((a % 2) + (b % 2)) % 2) + (2 * XorBits(a \div 2, b \div 2))

\* XOR of two 4-bit numbers, tabulated
XorNibble == [a \in 0..15 |-> [b \in 0..15 |-> XorBits(a, b)]]

\* XOR of two bytes
Xor(a, b) == (16 * XorNibble[a \div 16][b \div 16]) + XorNibble[a % 16][b % 16]

Pow2(k) == CASE k = 0 -> 1 [] k = 1 -> 2 [] k = 2 -> 4 [] k = 3 -> 8
             [] k = 4 -> 16 [] k = 5 -> 32 [] k = 6 -> 64 [] k = 7 -> 128

\* Rust's buf[a..b] (0-based, b exclusive); it panics unless a <= b <= len
SliceOk(buf, a, b) == a <= b /\ b <= Len(buf)

Slice(buf, a, b) == SubSeq(buf, a + 1, b)

\* Rust's buf[a..]
SliceFrom(buf, a) == Slice(buf, a, Len(buf))

Fill(n, x) == [i \in 1..n |-> x]

\* every sequence over S of length at most n
RECURSIVE SeqsUpTo(_, _)
SeqsUpTo(S, n) ==
    IF n = 0 THEN {<<>>}
    ELSE LET shorter == SeqsUpTo(S, n - 1)
         IN  shorter \cup { Append(q, x) : q \in {r \in shorter : Len(r) = n - 1}, x \in S }

-----------------------------------------------------------------------------
(* AES-256-GCM, as the aes_gcm crate provides it: a stream cipher in       *)
(* counter mode (ciphertext = plaintext XOR keystream(key, nonce)) followed *)
(* by a 16-byte tag over key, nonce and ciphertext.  The keystream and the  *)
(* tag are fixed deterministic functions standing for AES and GHASH; the    *)
(* tag is, like GHASH, linear in the ciphertext with non-zero coefficients  *)
(* and masked by a nonce-dependent block, so no single-bit change of nonce  *)
(* or ciphertext keeps it.                                                  *)

NONCE_SIZE == 12

KEY_SIZE == 32

TAG_SIZE == 16

FIXED_KEY ==
    << 101, 90, 52, 82, 111, 51, 97, 105, 115, 104, 53, 122, 101, 105, 116,
       101, 105, 33, 99, 97, 117, 50, 97, 101, 103, 101, 105, 124, 71, 104,
       51, 97 >>

KeyStream(key, nonce, i) ==
    ((key[((i - 1) % KEY_SIZE) + 1] * 7) + (nonce[((i - 1) % NONCE_SIZE) + 1] * 13)
       + (i * 29) + 91) % 256

\* the term of byte i of the ciphertext in the tag's polynomial
PolyTerm(ct, i, hi) == IF i <= hi THEN ((2 * i) + 1) * ct[i] ELSE 0

RECURSIVE PolySum(_, _, _)
PolySum(ct, lo, hi) ==
    IF hi - lo < 8
    THEN (PolyTerm(ct, lo, hi) + PolyTerm(ct, lo + 1, hi) + PolyTerm(ct, lo + 2, hi)
            + PolyTerm(ct, lo + 3, hi) + PolyTerm(ct, lo + 4, hi) + PolyTerm(ct, lo + 5, hi)
            + PolyTerm(ct, lo + 6, hi) + PolyTerm(ct, lo + 7, hi)) % 16777216
    ELSE LET mid == (lo + hi) \div 2
         IN  (PolySum(ct, lo, mid) + PolySum(ct, mid + 1, hi)) % 16777216

GHash(ct) == (PolySum(ct, 1, Len(ct)) + (40503 * Len(ct))) % 16777216

TagMask(key, nonce, j) ==
    IF j <= NONCE_SIZE
    THEN Xor(nonce[j], Xor(key[j], key[j + TAG_SIZE]))
    ELSE Xor(key[j], key[j + TAG_SIZE])

\* byte j of the tag's hash block
HashByte(h, j) ==
    CASE j = 14 -> h % 256
      [] j = 15 -> (h \div 256) % 256
      [] j = 16 -> (h \div 65536) % 256
      [] OTHER -> 0

GcmTag(key, nonce, ct) ==
    \* (the hash is computed once: it is bound, not re-expanded per byte)
    LET tag(h) == [j \in 1..TAG_SIZE |-> Xor(TagMask(key, nonce, j), HashByte(h, j))]
    IN  tag(GHash(ct)) \o <<>>

\* cipher.encrypt(&nonce, plaintext): ciphertext followed by the tag
AeadEncrypt(key, nonce, pt) ==
    LET ct == [i \in 1..Len(pt) |-> Xor(pt[i], KeyStream(key, nonce, i))] \o <<>>
    IN  ct \o GcmTag(key, nonce, ct)

\* cipher.decrypt(&nonce, buffer): Err when the buffer is shorter than a tag
\* or the tag does not verify, else the plaintext
AeadDecrypt(key, nonce, buf) ==
    IF Len(buf) < TAG_SIZE THEN [ok |-> FALSE, pt |-> <<>>]
    ELSE LET n  == Len(buf) - TAG_SIZE
             ct == Slice(buf, 0, n)
             tg == SliceFrom(buf, n)
         IN  IF GcmTag(key, nonce, ct) = tg
             THEN [ok |-> TRUE,
                   pt |-> [i \in 1..n |-> Xor(ct[i], KeyStream(key, nonce, i))] \o <<>>]
             ELSE [ok |-> FALSE, pt |-> <<>>]

-----------------------------------------------------------------------------
(* encrypt_pack_data and decrypt_pack_data *)

\* encrypt_pack_data with the ephemeral key written before the inner nonce
encrypt_pack_data_key_first(pack_data, random_key, nonce, fixed_nonce) ==
    LET first_round_encrypted  == AeadEncrypt(random_key, nonce, pack_data)
        combined_data          == random_key \o nonce \o first_round_encrypted
        second_round_encrypted == AeadEncrypt(FIXED_KEY, fixed_nonce, combined_data)
    IN  fixed_nonce \o second_round_encrypted

\* encrypt_pack_data(pack_data), with the three draws from OsRng as parameters
encrypt_pack_data(pack_data, random_key, nonce, fixed_nonce) ==
    LET first_round_encrypted  == AeadEncrypt(random_key, nonce, pack_data)
        combined_data          == nonce \o random_key \o first_round_encrypted
        second_round_encrypted == AeadEncrypt(FIXED_KEY, fixed_nonce, combined_data)
    IN  fixed_nonce \o second_round_encrypted

ErrTooShort == "Encrypted data too short"
ErrSecondRound == "Second round decryption failed"
ErrCombinedTooShort == "Decrypted data from second round too short"
ErrFirstRound == "First round decryption failed"

DecErr(msg, steps) == [kind |-> "err", msg |-> msg, data |-> <<>>, steps |-> steps]

DecPanic(steps) == [kind |-> "panic", msg |-> "index out of range", data |-> <<>>, steps |-> steps]

\* decrypt_inner with `<` where the code has `<=`
decrypt_inner_strict(combined_data, steps) ==
    IF Len(combined_data) < NONCE_SIZE + KEY_SIZE
    THEN DecErr(ErrCombinedTooShort, steps \o <<"check_combined_len">>)
    ELSE IF ~SliceOk(combined_data, 0, NONCE_SIZE + KEY_SIZE)
    THEN DecPanic(steps \o <<"check_combined_len", "slice_combined">>)
    ELSE
      LET first_round_nonce     == Slice(combined_data, 0, NONCE_SIZE)
          random_key_bytes      == Slice(combined_data, NONCE_SIZE, NONCE_SIZE + KEY_SIZE)
          first_round_encrypted == SliceFrom(combined_data, NONCE_SIZE + KEY_SIZE)
          original              == AeadDecrypt(random_key_bytes, first_round_nonce,
                                               first_round_encrypted)
          st == steps \o <<"check_combined_len", "slice_combined", "first_round_decrypt">>
      IN  IF original.ok
          THEN [kind |-> "ok", msg |-> "", data |-> original.pt, steps |-> st]
          ELSE DecErr(ErrFirstRound, st)

\* the second half of decrypt_pack_data: from the decrypted outer layer on
decrypt_inner(combined_data, steps) ==
    IF Len(combined_data) <= NONCE_SIZE + KEY_SIZE
    THEN DecErr(ErrCombinedTooShort, steps \o <<"check_combined_len">>)
    ELSE IF ~SliceOk(combined_data, 0, NONCE_SIZE + KEY_SIZE)
    THEN DecPanic(steps \o <<"check_combined_len", "slice_combined">>)
    ELSE
      LET first_round_nonce     == Slice(combined_data, 0, NONCE_SIZE)
          random_key_bytes      == Slice(combined_data, NONCE_SIZE, NONCE_SIZE + KEY_SIZE)
          first_round_encrypted == SliceFrom(combined_data, NONCE_SIZE + KEY_SIZE)
          original              == AeadDecrypt(random_key_bytes, first_round_nonce,
                                               first_round_encrypted)
          st == steps \o <<"check_combined_len", "slice_combined", "first_round_decrypt">>
      IN  IF original.ok
          THEN [kind |-> "ok", msg |-> "", data |-> original.pt, steps |-> st]
          ELSE DecErr(ErrFirstRound, st)

\* decrypt_pack_data with the outer failure swallowed (unwrap_or_default in
\* place of map_err(..)?)
decrypt_pack_data_lenient(encrypted_data) ==
    IF Len(encrypted_data) <= NONCE_SIZE
    THEN DecErr(ErrTooShort, <<"check_len">>)
    ELSE
      LET fixed_nonce            == Slice(encrypted_data, 0, NONCE_SIZE)
          second_round_encrypted == SliceFrom(encrypted_data, NONCE_SIZE)
          combined == AeadDecrypt(FIXED_KEY, fixed_nonce, second_round_encrypted)
          st == <<"check_len", "slice_nonce", "second_round_decrypt">>
      IN  IF ~combined.ok
          THEN [kind |-> "ok", msg |-> "", data |-> <<>>, steps |-> st]
          ELSE decrypt_inner(combined.pt, st)

decrypt_pack_data(encrypted_data) ==
    IF Len(encrypted_data) <= NONCE_SIZE
    THEN DecErr(ErrTooShort, <<"check_len">>)
    ELSE IF ~SliceOk(encrypted_data, 0, NONCE_SIZE)
    THEN DecPanic(<<"check_len", "slice_nonce">>)
    ELSE
      LET fixed_nonce            == Slice(encrypted_data, 0, NONCE_SIZE)
          second_round_encrypted == SliceFrom(encrypted_data, NONCE_SIZE)
          combined == AeadDecrypt(FIXED_KEY, fixed_nonce, second_round_encrypted)
          st == <<"check_len", "slice_nonce", "second_round_decrypt">>
      IN  IF ~combined.ok
          THEN DecErr(ErrSecondRound, st)
          ELSE decrypt_inner(combined.pt, st)

-----------------------------------------------------------------------------
(* Text: str::contains, starts_with, split(char), trim_end_matches *)

StartsWith(s, pat) == Len(s) >= Len(pat) /\ SubSeq(s, 1, Len(pat)) = pat

EndsWith(s, pat) ==
    Len(s) >= Len(pat) /\ SubSeq(s, Len(s) - Len(pat) + 1, Len(s)) = pat

Contains(s, pat) ==
    \E i \in 1..(Len(s) - Len(pat) + 1) : SubSeq(s, i, i + Len(pat) - 1) = pat

\* s.split(ch).collect(): always at least one part, empty parts kept
RECURSIVE Split(_, _)
Split(s, ch) ==
    IF \A i \in 1..Len(s) : s[i] # ch THEN <<s>>
    ELSE LET i == CHOOSE k \in 1..Len(s) : s[k] = ch /\ \A j \in 1..(k - 1) : s[j] # ch
         IN  <<SubSeq(s, 1, i - 1)>> \o Split(SubSeq(s, i + 1, Len(s)), ch)

\* s.trim_end_matches(pat): the suffix is removed as often as it occurs
RECURSIVE TrimEndMatches(_, _)
TrimEndMatches(s, pat) ==
    IF Len(pat) > 0 /\ EndsWith(s, pat)
    THEN TrimEndMatches(SubSeq(s, 1, Len(s) - Len(pat)), pat)
    ELSE s

RECURSIVE Join(_, _)
Join(parts, sep) ==
    IF Len(parts) = 0 THEN <<>>
    ELSE IF Len(parts) = 1 THEN parts[1]
    ELSE parts[1] \o sep \o Join(Tail(parts), sep)

T_unknown == <<"u", "n", "k", "n", "o", "w", "n">>
T_github  == <<"g", "i", "t", "h", "u", "b", ".", "c", "o", "m">>
T_gitAt   == <<"g", "i", "t", "@">>
T_dotgit  == <<".", "g", "i", "t">>

-----------------------------------------------------------------------------
(* Characters and bytes: String::into_bytes and String::from_utf8_lossy *)

\* the characters with codes 32..126, in order (the double quote, the
\* backslash and the backtick are written as named tokens)
Printable ==
    << " ", "!", "<dquote>", "#", "$", "%", "&", "'", "(", ")", "*", "+",
       ",", "-", ".", "/", "0", "1", "2", "3", "4", "5", "6", "7",
       "8", "9", ":", ";", "<", "=", ">", "?", "@", "A", "B", "C",
       "D", "E", "F", "G", "H", "I", "J", "K", "L", "M", "N", "O",
       "P", "Q", "R", "S", "T", "U", "V", "W", "X", "Y", "Z", "[",
       "<bslash>", "]", "^", "_", "<btick>", "a", "b", "c", "d", "e", "f", "g",
       "h", "i", "j", "k", "l", "m", "n", "o", "p", "q", "r", "s",
       "t", "u", "v", "w", "x", "y", "z", "{", "|", "}", "~" >>

\* from_utf8_lossy on one byte: ASCII stays, a byte that is no UTF-8 on its
\* own becomes U+FFFD
Chr(b) ==
    IF b >= 32 /\ b <= 126 THEN Printable[b - 31]
    ELSE IF b < 128 THEN "<ctl>"
    ELSE "<U+FFFD>"

\* the byte of each printable character, tabulated
OrdOf ==
    [c \in {Printable[k] : k \in 1..Len(Printable)} |->
        CHOOSE b \in 32..126 : Printable[b - 31] = c]

Ord(c) == OrdOf[c]

IntoBytes(text) == [i \in 1..Len(text) |-> Ord(text[i])] \o <<>>

FromUtf8Lossy(bytes) == [i \in 1..Len(bytes) |-> Chr(bytes[i])] \o <<>>

HexDigits == <<"0", "1", "2", "3", "4", "5", "6", "7", "8", "9",
               "a", "b", "c", "d", "e", "f">>

Pow16(k) == CASE k = 0 -> 1 [] k = 1 -> 16 [] k = 2 -> 256 [] k = 3 -> 4096
              [] k = 4 -> 65536 [] k = 5 -> 1048576 [] k = 6 -> 16777216

\* Oid::to_string(): 40 lower-case hexadecimal digits (object ids of the model
\* stay below 16^7, so the 33 leading digits are zero)
OidToString(oid) ==
    [i \in 1..40 |-> IF 40 - i >= 7 THEN "0"
                     ELSE HexDigits[((oid \div Pow16(40 - i)) % 16) + 1]] \o <<>>

\* the value of each hexadecimal digit, lower or upper case, tabulated
HexDigitOf ==
    [c \in {HexDigits[d] : d \in 1..16} \cup {Chr(Ord(HexDigits[d]) - 32) : d \in 11..16} |->
        CHOOSE d \in 1..16 : HexDigits[d] = c \/ (d > 10 /\ Chr(Ord(HexDigits[d]) - 32) = c)]

IsHexDigit(c) == c \in DOMAIN HexDigitOf

HexValue(c) == HexDigitOf[c] - 1

\* the object a 40-character revision names: its number, or -1 when the text
\* is no hexadecimal id or names no object of the model's universe
OidFromString(text) ==
    IF Len(text) # 40 \/ \E i \in 1..40 : ~IsHexDigit(text[i]) THEN -1
    ELSE IF \E i \in 1..33 : text[i] # "0" THEN -1
    ELSE HexValue(text[40]) + (16 * HexValue(text[39])) + (256 * HexValue(text[38]))
         + (4096 * HexValue(text[37])) + (65536 * HexValue(text[36]))
         + (1048576 * HexValue(text[35])) + (16777216 * HexValue(text[34]))

-----------------------------------------------------------------------------
(* extract_repo_info *)

RepoInfo(author, name) == [kind |-> "ok", author |-> author, name |-> name]

\* the parse of lines 376-416: (author, name) from the URL text
parse_url(url) ==
    IF Contains(url, T_github)
    THEN IF StartsWith(url, T_gitAt)
         THEN \* SSH format
              LET parts == Split(url, ":")
              IN  IF Len(parts) >= 2
                  THEN LET repo_part  == TrimEndMatches(parts[2], T_dotgit)
                           repo_parts == Split(repo_part, "/")
                       IN  IF Len(repo_parts) >= 2
                           THEN RepoInfo(repo_parts[1], repo_parts[2])
                           ELSE RepoInfo(T_unknown, repo_part)
                  ELSE RepoInfo(T_unknown, T_unknown)
         ELSE \* HTTPS format
              LET url_parts == Split(url, "/")
              IN  IF Len(url_parts) >= 5
                  THEN RepoInfo(url_parts[Len(url_parts) - 1],
                                TrimEndMatches(url_parts[Len(url_parts)], T_dotgit))
                  ELSE RepoInfo(T_unknown, T_unknown)
    ELSE \* Fallback for other Git hosting services
         LET path_parts == Split(url, "/")
         IN  IF Len(path_parts) >= 2
             THEN RepoInfo(path_parts[Len(path_parts) - 1],
                           TrimEndMatches(path_parts[Len(path_parts)], T_dotgit))
             ELSE RepoInfo(T_unknown, T_unknown)

\* remote: [kind |-> "absent"], [kind |-> "nourl"] or [kind |-> "url", url |-> text]
extract_repo_info(remote) ==
    IF remote.kind = "absent" THEN RepoInfo(T_unknown, T_unknown)
    ELSE IF remote.kind = "nourl" THEN RepoInfo(T_unknown, T_unknown)
    ELSE parse_url(remote.url)

-----------------------------------------------------------------------------
(* The identity machine: origin remotes in both dialects *)

\* the two dialects, with and without a user part
Dialects == {"scp-git", "scp-user", "scp-bare", "https", "ssh-url"}

Hosts == { T_github, <<"e", "x", ".", "o", "r", "g">> }

KnownHost(h) == h = T_github

Segments == { <<"a", "c", "m", "e">>, <<"w", "i", "d", "g", "e", "t">>, <<"x">> }

Suffixes == { <<>>, T_dotgit }

Paths == SeqsUpTo(Segments, MaxSegs)

UrlText(dialect, host, segs, suffix) ==
    LET path == Join(segs, <<"/">>) \o suffix
    IN  CASE dialect = "scp-git"  -> T_gitAt \o host \o <<":">> \o path
          [] dialect = "scp-user" -> <<"b", "o", "b", "@">> \o host \o <<":">> \o path
          [] dialect = "scp-bare" -> host \o <<":">> \o path
          [] dialect = "https"    -> <<"h", "t", "t", "p", "s", ":", "/", "/">> \o host
                                       \o <<"/">> \o path
          [] dialect = "ssh-url"  -> <<"s", "s", "h", ":", "/", "/">> \o T_gitAt \o host
                                       \o <<"/">> \o path

Remotes ==
    { [kind |-> "absent"], [kind |-> "nourl"] } \cup
    { [kind |-> "url", dialect |-> d, host |-> h, segs |-> p, suffix |-> x,
       url |-> UrlText(d, h, p, x)] :
        d \in Dialects, h \in Hosts, p \in Paths, x \in Suffixes }

NoInfo == [kind |-> "none", author |-> <<>>, name |-> <<>>]

IInit ==
    /\ ipc = "configured"
    /\ iRemote \in Remotes
    /\ iInfo = NoInfo

IExtract ==
    /\ ipc = "configured"
    /\ iInfo' = extract_repo_info(iRemote)
    /\ ipc' = "parsed"
    /\ UNCHANGED iRemote

-----------------------------------------------------------------------------
(* The object database.  Objects are content-addressed: an id determines   *)
(* the object, so its kind, parents, tree and entries are functions of the  *)
(* id.  The history is A <- B <- C <- D with a side commit E on A; blob X   *)
(* is in A's tree, absent from B's and back in C's.                         *)

OID == [ A |-> 1, B |-> 2, C |-> 3, D |-> 4, E |-> 5,
         X |-> 11, Y |-> 12, Z |-> 13, W |-> 14,
         TA |-> 21, TB |-> 22, TC |-> 23, TD |-> 24, TE |-> 25, TS |-> 26,
         TW |-> 27 ]

BaseCommits == {OID.A, OID.B, OID.C, OID.D, OID.E}

Blobs == {OID.X, OID.Y, OID.Z, OID.W}

\* the entries of a tree: blobs and subtrees
Entries(t) ==
    CASE t = OID.TA -> {OID.X}
      [] t = OID.TB -> {OID.Y}
      [] t = OID.TC -> {OID.X, OID.Y}
      [] t = OID.TD -> {OID.X, OID.Y, OID.TS}
      [] t = OID.TE -> {OID.TS}
      [] t = OID.TS -> {OID.Z}
      [] t = OID.TW -> {OID.Y, OID.W}
      [] OTHER -> {}

\* repo.commit(None, sig, sig, msg, tree, [parent]) at time `now`: the id of
\* the commit object, a function of its content
CommitOid(parent, tree, now) ==
    64 + ((((parent * 8) + (tree - 21)) * (MaxTime + 1)) + now)

IsMarker(o) == o >= 64 /\ o < 268435456

IsCommit(o) == o \in BaseCommits \/ IsMarker(o)

Parents(c) ==
    CASE c = OID.A -> {}
      [] c = OID.B -> {OID.A}
      [] c = OID.C -> {OID.B}
      [] c = OID.D -> {OID.C}
      [] c = OID.E -> {OID.A}
      [] OTHER -> {((c - 64) \div (MaxTime + 1)) \div 8}

TreeOf(c) ==
    CASE c = OID.A -> OID.TA
      [] c = OID.B -> OID.TB
      [] c = OID.C -> OID.TC
      [] c = OID.D -> OID.TD
      [] c = OID.E -> OID.TE
      [] OTHER -> 21 + (((c - 64) \div (MaxTime + 1)) % 8)

\* every object a tree reaches, the tree included
RECURSIVE TreeClosure(_)
TreeClosure(t) ==
    IF t \in Blobs THEN {t}
    ELSE {t} \cup UNION { TreeClosure(e) : e \in Entries(t) }

\* every commit reachable from the commits in `tips` through parents
RECURSIVE Ancestry(_)
Ancestry(tips) ==
    LET more == tips \cup UNION { Parents(c) : c \in tips }
    IN  IF more = tips THEN tips ELSE Ancestry(more)

\* every object reachable from commit c
Reachable(c) ==
    LET commits == Ancestry({c})
    IN  commits \cup UNION { TreeClosure(TreeOf(k)) : k \in commits }

-----------------------------------------------------------------------------
(* Revision walk, pack builder and pack stream (cmd_up, steps 2 to 6) *)

\* the walk without revwalk.hide
revwalk_no_hide(objects, start, hidden) ==
    [ok |-> Ancestry({start}) \subseteq objects, commits |-> Ancestry({start})]

\* a walk that yields the pushed commit alone
revwalk_tip_only(objects, start, hidden) ==
    [ok |-> ({start} \cup hidden) \subseteq objects, commits |-> {start}]

\* revwalk.push(start), revwalk.hide(h) for h in hidden: the commits the walk
\* yields.  The walk reads every commit it yields and every hidden tip.
revwalk(objects, start, hidden) ==
    LET commits == Ancestry({start}) \ Ancestry(hidden)
    IN  [ok |-> (commits \cup hidden) \subseteq objects, commits |-> commits]

\* packbuilder.insert_walk: the trees of the hidden tips are marked
\* uninteresting with everything below them; every commit of the walk is
\* inserted, and its tree is descended, stopping at uninteresting objects
RECURSIVE insert_tree(_, _)
insert_tree(t, uninteresting) ==
    IF t \in uninteresting THEN {}
    ELSE IF t \in Blobs THEN {t}
    ELSE {t} \cup UNION { insert_tree(e, uninteresting) : e \in Entries(t) }

insert_walk(objects, walk, hidden) ==
    LET uninteresting == UNION { TreeClosure(TreeOf(h)) : h \in hidden }
        inserted == walk.commits
                      \cup UNION { insert_tree(TreeOf(c), uninteresting) : c \in walk.commits }
    IN  [ok |-> walk.ok /\ inserted \subseteq objects, objs |-> inserted]

U32(n) == << (n \div 16777216) % 256, (n \div 65536) % 256, (n \div 256) % 256, n % 256 >>

FromU32(b, at) ==
    (b[at + 1] * 16777216) + (b[at + 2] * 65536) + (b[at + 3] * 256) + b[at + 4]

RECURSIVE SortedSeq(_)
SortedSeq(S) ==
    IF S = {} THEN <<>>
    ELSE LET m == CHOOSE x \in S : \A y \in S : x <= y
         IN  <<m>> \o SortedSeq(S \ {m})

T_PACK == <<80, 65, 67, 75>>

\* packbuilder.write_buf: the header "PACK", version 2, the object count,
\* then one entry per object (the entry stands for the object's content,
\* from which the reader computes its id)
write_buf(objs) ==
    LET ids == SortedSeq(objs)
    IN  T_PACK \o U32(2) \o U32(Len(ids))
          \o [i \in 1..(4 * Len(ids)) |-> U32(ids[((i - 1) \div 4) + 1])[((i - 1) % 4) + 1]]

\* git index-pack --stdin --fix-thin: fails on a stream that is no pack, else
\* returns the objects it wrote to the object database (a header field with
\* its top bit set is beyond any pack of the model and is rejected likewise)
index_pack(bytes) ==
    IF Len(bytes) < 12 \/ SubSeq(bytes, 1, 4) # T_PACK
       \/ bytes[1] >= 128 \/ bytes[5] >= 128 \/ bytes[9] >= 128
    THEN [ok |-> FALSE, objs |-> {}]
    ELSE IF FromU32(bytes, 4) # 2 \/ Len(bytes) # 12 + (4 * FromU32(bytes, 8))
            \/ \E i \in 0..(FromU32(bytes, 8) - 1) : bytes[13 + (4 * i)] >= 128
    THEN [ok |-> FALSE, objs |-> {}]
    ELSE [ok |-> TRUE,
          objs |-> { FromU32(bytes, 12 + (4 * i)) : i \in 0..(FromU32(bytes, 8) - 1) }]

-----------------------------------------------------------------------------
(* Repositories, the bucket, and the steps of cmd_up *)

Machines == {"a", "b"}

BranchText == [dev |-> <<"d", "e", "v">>]

T_headpack == <<"/", "h", "e", "a", "d", ".", "p", "a", "c", "k">>
T_headdash == <<"/", "h", "e", "a", "d", "-">>
T_pack     == <<".", "p", "a", "c", "k">>

ErrNotABranch == "HEAD is not a branch (detached HEAD state)"
ErrPackBuild  == "object not found"
ErrPut        == "put_object failed"
ErrPresign    == "presign failed"
ErrGet        == "get_object failed"
ErrReadFile   == "No such file or directory"
ErrIndexPack  == "Failed to apply pack"
ErrReset      == "Failed to update working directory"

Ok == [kind |-> "ok", msg |-> ""]

Err(msg) == [kind |-> "err", msg |-> msg]

Panic(msg) == [kind |-> "panic", msg |-> msg]

\* the commit HEAD resolves to
head_commit(r) ==
    IF r.head.kind = "branch" THEN r.branches[r.head.name] ELSE r.head.oid

\* every reference of a repository: HEAD, the branches, the remote-tracking refs
Refs(r) == [head |-> r.head, branches |-> r.branches, remotes |-> r.remotes]

\* index.write_tree(): the tree objects of the index are written; its blobs
\* were written when they were staged
write_tree(r) ==
    [r EXCEPT !.objects = @ \cup (TreeClosure(r.index) \ Blobs)]

\* repo.commit(Some("HEAD"), ...): the commit is written and HEAD's branch moved
commit_on_head(r, oid) ==
    [r EXCEPT !.objects = @ \cup {oid},
              !.branches = IF r.head.kind = "branch"
                           THEN [@ EXCEPT ![r.head.name] = oid] ELSE @]

\* repo.commit(None, ...): the commit object is written, no reference is updated
commit(r, oid) == [r EXCEPT !.objects = @ \cup {oid}]

\* refs/remotes/origin/<branch>, when it exists: the commits to hide
remote_branch(r) ==
    IF r.head.name \in DOMAIN r.remotes THEN {r.remotes[r.head.name]} ELSE {}

\* the object key of lines 193-205
pack_file_name(repo_info, branch_name, raw, sha) ==
    IF raw
    THEN repo_info.author \o <<"/">> \o repo_info.name \o <<"/">> \o branch_name
           \o T_headdash \o sha \o T_pack
    ELSE repo_info.author \o <<"/">> \o repo_info.name \o <<"/">> \o branch_name
           \o T_headpack

\* put_object: the object at `key` is replaced
Put(bkt, key, data) ==
    [k \in DOMAIN bkt \cup {key} |-> IF k = key THEN data ELSE bkt[k]]

NoKey == <<>>

UpEnd(r, bkt, result, steps, key, marker, root) ==
    [repo |-> r, bucket |-> bkt, result |-> result, steps |-> steps, key |-> key,
     marker |-> marker, root |-> root]

\* the upload with the result of upload_pack_to_s3 dropped instead of
\* propagated with `?`: presign is issued whether or not put succeeded
up_upload_ignore_put(r, bkt, key, data, steps, net, marker) ==
    IF ~net.presign
    THEN UpEnd(r, IF net.put THEN Put(bkt, key, data) ELSE bkt, Err(ErrPresign),
               steps \o <<"put", "presign">>, key, marker, marker)
    ELSE UpEnd(r, Put(bkt, key, data), Ok, steps \o <<"put", "presign">>,
               key, marker, marker)

\* upload_pack_to_s3 then generate_presigned_url, lines 223-231 and 251-259
up_upload(r, bkt, key, data, steps, net, marker) ==
    IF ~net.put
    THEN UpEnd(r, bkt, Err(ErrPut), steps \o <<"put">>, key, marker, marker)
    ELSE IF ~net.presign
    THEN UpEnd(r, Put(bkt, key, data), Err(ErrPresign), steps \o <<"put", "presign">>,
               key, marker, marker)
    ELSE UpEnd(r, Put(bkt, key, data), Ok, steps \o <<"put", "presign">>,
               key, marker, marker)

\* cmd_up from the revision walk on, lines 147-261
up_pack(r, bkt, raw, staged_commit_oid, rng, net) ==
    LET hidden == remote_branch(r)
        walk   == revwalk(r.objects, staged_commit_oid, hidden)
        built  == insert_walk(r.objects, walk, hidden)
        st1    == <<"head", "write_tree", "commit", "revwalk", "insert_walk">>
    IN  IF ~built.ok
        THEN UpEnd(r, bkt, Err(ErrPackBuild), st1, NoKey, staged_commit_oid,
                   staged_commit_oid)
        ELSE
          LET buf               == write_buf(built.objs)
              staged_commit_sha == OidToString(staged_commit_oid)
              repo_info         == extract_repo_info(r.origin)
              key == pack_file_name(repo_info, BranchText[r.head.name], raw,
                                    staged_commit_sha)
          IN  IF raw
              THEN up_upload(r, bkt, key, buf, st1 \o <<"write_buf", "identity">>,
                             net, staged_commit_oid)
              ELSE up_upload(r, bkt, key,
                             encrypt_pack_data(IntoBytes(staged_commit_sha) \o buf,
                                               rng.key, rng.nonce, rng.fixed_nonce),
                             st1 \o <<"write_buf", "identity", "encrypt">>,
                             net, staged_commit_oid)

\* the staged-changes commit of lines 120-140: tree = the written index,
\* parent = the HEAD commit
staged_commit(r, now) == CommitOid(head_commit(r), r.index, now)

\* cmd_up with the is_branch check made after the staged-changes commit
cmd_up_late_check(r, bkt, raw, now, rng, net) ==
    IF r.head.kind # "branch"
    THEN UpEnd(commit(write_tree(r), staged_commit(r, now)), bkt, Err(ErrNotABranch),
               <<"head">>, NoKey, -1, -1)
    ELSE up_pack(commit(write_tree(r), staged_commit(r, now)), bkt, raw,
                 staged_commit(r, now), rng, net)

cmd_up(r, bkt, raw, now, rng, net) ==
    IF r.head.kind # "branch"
    THEN UpEnd(r, bkt, Err(ErrNotABranch), <<"head">>, NoKey, -1, -1)
    ELSE up_pack(commit(write_tree(r), staged_commit(r, now)), bkt, raw,
                 staged_commit(r, now), rng, net)

-----------------------------------------------------------------------------
(* cmd_down, apply_pack_to_repo and cmd_s *)

DownEnd(r, result, steps, key) ==
    [repo |-> r, result |-> result, steps |-> steps, key |-> key]

\* git reset --hard <sha>: the revision must name a commit of the object
\* database whose tree can be checked out; HEAD's branch (or a detached
\* HEAD), the index and the working tree are then forced to it
reset_ok(r, target) ==
    /\ IsCommit(target)
    /\ target \in r.objects
    /\ TreeClosure(TreeOf(target)) \subseteq r.objects

\* git checkout <sha> -- . in place of git reset --hard: the branch stays
reset_hard_keep_branch(r, target) ==
    [r EXCEPT !.index = TreeOf(target), !.worktree = TreeOf(target)]

reset_hard(r, target) ==
    [r EXCEPT !.branches = IF r.head.kind = "branch"
                           THEN [@ EXCEPT ![r.head.name] = target] ELSE @,
              !.head     = IF r.head.kind = "branch" THEN @
                           ELSE [kind |-> "detached", oid |-> target],
              !.index    = TreeOf(target),
              !.worktree = TreeOf(target)]

apply_pack_to_repo(r, pack_data, steps, key) ==
    IF ~SliceOk(pack_data, 0, 40)
    THEN DownEnd(r, Panic("range end index 40 out of range"), steps \o <<"slice_sha">>, key)
    ELSE
      LET sha_str == FromUtf8Lossy(Slice(pack_data, 0, 40))
          indexed == index_pack(SliceFrom(pack_data, 40))
          r1      == [r EXCEPT !.objects = @ \cup indexed.objs]
          target  == OidFromString(sha_str)
      IN  IF ~indexed.ok
          THEN DownEnd(r, Err(ErrIndexPack), steps \o <<"slice_sha", "index_pack">>, key)
          ELSE IF ~reset_ok(r1, target)
          THEN DownEnd(r1, Err(ErrReset), steps \o <<"slice_sha", "index_pack", "reset">>, key)
          ELSE DownEnd(reset_hard(r1, target), Ok,
                       steps \o <<"slice_sha", "index_pack", "reset">>, key)

cmd_down(r, bkt, net) ==
    IF r.head.kind # "branch"
    THEN DownEnd(r, Err(ErrNotABranch), <<"head">>, NoKey)
    ELSE
      LET repo_info == extract_repo_info(r.origin)
          key == pack_file_name(repo_info, BranchText[r.head.name], FALSE, <<>>)
      IN  IF ~net.get \/ key \notin DOMAIN bkt
          THEN DownEnd(r, Err(ErrGet), <<"head", "identity", "get">>, key)
          ELSE LET dec == decrypt_pack_data(bkt[key])
               IN  IF dec.kind # "ok"
                   THEN DownEnd(r, [kind |-> dec.kind, msg |-> dec.msg],
                                <<"head", "identity", "get", "decrypt">>, key)
                   ELSE apply_pack_to_repo(r, dec.data,
                                           <<"head", "identity", "get", "decrypt">>, key)

\* cmd_s(local_file, object_key): file is the content read, or "missing"
cmd_s(bkt, file, key, net) ==
    IF file.kind = "missing"
    THEN [bucket |-> bkt, result |-> Err(ErrReadFile), steps |-> <<"read">>]
    ELSE IF ~net.put
    THEN [bucket |-> bkt, result |-> Err(ErrPut), steps |-> <<"read", "put">>]
    ELSE IF ~net.presign
    THEN [bucket |-> Put(bkt, key, file.data), result |-> Err(ErrPresign),
          steps |-> <<"read", "put", "presign">>]
    ELSE [bucket |-> Put(bkt, key, file.data), result |-> Ok,
          steps |-> <<"read", "put", "presign">>]

-----------------------------------------------------------------------------
(* The sync machine *)

Origin(dialect) ==
    [kind |-> "url",
     url |-> UrlText(dialect, T_github,
                     << <<"a", "c", "m", "e">>, <<"w", "i", "d", "g", "e", "t">> >>,
                     T_dotgit)]

\* a repository whose branch dev is at `tip`, with HEAD on dev or detached at
\* tip, the remote-tracking refs `remotes`, and the index `index`
MakeRepo(tip, attached, remotes, index, dialect) ==
    [objects  |-> Reachable(tip) \cup UNION { Reachable(remotes[b]) : b \in DOMAIN remotes }
                    \cup (TreeClosure(index) \cap Blobs),
     head     |-> IF attached THEN [kind |-> "branch", name |-> "dev"]
                  ELSE [kind |-> "detached", oid |-> tip],
     branches |-> [dev |-> tip],
     remotes  |-> remotes,
     index    |-> index,
     worktree |-> index,
     origin   |-> Origin(dialect)]

NoRemotes == [b \in {} |-> 0]

\* machine a works on D with HEAD on dev: origin/dev absent, at B, or at the
\* side commit E, and the index clean or with W staged; or with HEAD detached
ReposA ==
    { MakeRepo(OID.D, TRUE, remotes, index, "scp-git") :
        remotes \in {NoRemotes, [dev |-> OID.B], [dev |-> OID.E]},
        index \in {OID.TD, OID.TW} }
    \cup { MakeRepo(OID.D, FALSE, [dev |-> OID.B], OID.TW, "scp-git") }

\* machine b is a clone at B, or a clone at A that never fetched
ReposB ==
    { MakeRepo(OID.B, TRUE, [dev |-> OID.B], OID.TB, "https"),
      MakeRepo(OID.A, TRUE, NoRemotes, OID.TA, "https") }

\* what OsRng returns in one run of cmd_up; the envelope machine below varies
\* the key and the nonces, this machine varies the repositories and the gateway
Draws ==
    { [key |-> FIXED_KEY, nonce |-> [i \in 1..NONCE_SIZE |-> 17 * i],
       fixed_nonce |-> Fill(NONCE_SIZE, 0)] }

\* the gateway during one upload: put fails, put succeeds and presign fails,
\* or both succeed
NetUp ==
    { [put |-> FALSE, presign |-> FALSE], [put |-> TRUE, presign |-> FALSE],
      [put |-> TRUE, presign |-> TRUE] }

NetDown == [get : BOOLEAN]

\* local files given to `s`: bytes that are no envelope, an envelope sealed
\* around a payload shorter than a commit id, and a path that does not exist
LocalFiles ==
    { [kind |-> "file", data |-> <<1, 2, 3>>],
      [kind |-> "file",
       data |-> encrypt_pack_data(<<1, 2, 3>>, Fill(KEY_SIZE, 0), Fill(NONCE_SIZE, 0),
                                  Fill(NONCE_SIZE, 0))],
      [kind |-> "missing", data |-> <<>>] }

T_default == <<"f", "r", "o", "m", "/", "h", "/", "f">>

\* object keys a user of `s` may name beside the default one: the shared slot
\* of the machines' repository and branch
SlotKeys ==
    { pack_file_name(extract_repo_info(Origin(d)), BranchText["dev"], FALSE, <<>>) :
        d \in {"scp-git", "https"} }

NoLast ==
    [cmd |-> "none", m |-> "none", raw |-> FALSE, result |-> Ok, steps |-> <<>>,
     key |-> NoKey, marker |-> -1, root |-> -1]

NoSent == [k \in {} |-> 0]

SInit ==
    /\ repo \in [Machines -> ReposA \cup ReposB]
    /\ repo["a"] \in ReposA
    /\ repo["b"] \in ReposB
    /\ bucket = [k \in {} |-> <<>>]
    /\ clock = 0
    /\ nops = 0
    /\ last = NoLast
    /\ sent = NoSent

\* who wrote the object now at `key`
Sender(cmd, m, r, marker) ==
    [cmd |-> cmd, m |-> m, marker |-> marker,
     head |-> IF cmd = "up" THEN head_commit(r) ELSE -1,
     clean |-> cmd = "up" /\ r.index = TreeOf(head_commit(r)),
     hidden |-> IF cmd = "up" THEN remote_branch(r) ELSE {}]

NoteSent(bkt, key, who) ==
    IF bkt = bucket THEN sent
    ELSE [k \in DOMAIN sent \cup {key} |-> IF k = key THEN who ELSE sent[k]]

CmdUp(m, raw) ==
    /\ nops < MaxOps
    /\ \E now \in {t \in {clock, clock + 1} : t <= MaxTime}, net \in NetUp :
         \E rng \in Draws :
         \E out \in {cmd_up(repo[m], bucket, raw, now, rng, net)} :
             /\ repo' = [repo EXCEPT ![m] = out.repo]
             /\ bucket' = out.bucket
             /\ clock' = now
             /\ last' = [cmd |-> "up", m |-> m, raw |-> raw, result |-> out.result,
                         steps |-> out.steps, key |-> out.key, marker |-> out.marker,
                         root |-> out.root]
             /\ sent' = NoteSent(out.bucket, out.key, Sender("up", m, repo[m], out.marker))
    /\ nops' = nops + 1

CmdDown(m) ==
    /\ nops < MaxOps
    /\ \E net \in NetDown :
         \E out \in {cmd_down(repo[m], bucket, net)} :
             /\ repo' = [repo EXCEPT ![m] = out.repo]
             /\ last' = [cmd |-> "down", m |-> m, raw |-> FALSE, result |-> out.result,
                         steps |-> out.steps, key |-> out.key, marker |-> -1, root |-> -1]
    /\ nops' = nops + 1
    /\ UNCHANGED <<bucket, clock, sent>>

CmdS ==
    /\ nops < MaxOps
    /\ \E file \in LocalFiles, key \in DOMAIN bucket \cup {T_default} \cup SlotKeys :
         \E net \in (IF file.kind = "missing" THEN {CHOOSE n \in NetUp : n.presign} ELSE NetUp) :
         \E out \in {cmd_s(bucket, file, key, net)} :
             /\ bucket' = out.bucket
             /\ last' = [cmd |-> "s", m |-> "any", raw |-> FALSE, result |-> out.result,
                         steps |-> out.steps, key |-> key, marker |-> -1, root |-> -1]
             /\ sent' = NoteSent(out.bucket, key, Sender("s", "any", repo["a"], -1))
    /\ nops' = nops + 1
    /\ UNCHANGED <<repo, clock>>

-----------------------------------------------------------------------------
(* The envelope machine: inputs of encrypt_pack_data and decrypt_pack_data *)

\* 40-character ASCII strings S: a hexadecimal commit id, and one that is no
\* hexadecimal number at all
ShaStrings == { Fill(38, 48) \o <<97, 51>>, Fill(40, 122) }

PayloadBytes == {0, 255}

Payloads == SeqsUpTo(PayloadBytes, MaxPayload)

\* what OsRng may return for the ephemeral key and for a nonce
EphemeralKeys == { Fill(KEY_SIZE, 0), FIXED_KEY }

Nonces == { Fill(NONCE_SIZE, 0), [i \in 1..NONCE_SIZE |-> 17 * i] }

\* blob with bit `bit` of byte `pos` (1-based) inverted
FlipBit(blob, pos, bit) ==
    [blob EXCEPT ![pos] = IF (blob[pos] \div Pow2(bit)) % 2 = 1
                          THEN blob[pos] - Pow2(bit)
                          ELSE blob[pos] + Pow2(bit)]

NoResult == [kind |-> "none", msg |-> "", data |-> <<>>, steps |-> <<>>]

CInit ==
    /\ cpc = "plain"
    /\ cS \in ShaStrings
    /\ cP \in Payloads
    /\ cBlob = <<>>
    /\ cIn = <<>>
    /\ cOut = NoResult

\* cmd_up's encrypted branch: sha bytes, then the pack, through encrypt_pack_data
CEncrypt ==
    /\ cpc = "plain"
    /\ \E random_key \in EphemeralKeys, nonce \in Nonces, fixed_nonce \in Nonces :
         cBlob' = encrypt_pack_data(cS \o cP, random_key, nonce, fixed_nonce)
    /\ cpc' = "encrypted"
    /\ UNCHANGED <<cS, cP, cIn, cOut>>

\* cmd_down's decrypt_pack_data on the blob as stored
CDecrypt ==
    /\ cpc = "encrypted"
    /\ cIn' = cBlob
    /\ cOut' = decrypt_pack_data(cBlob)
    /\ cpc' = "decrypted"
    /\ UNCHANGED <<cS, cP, cBlob>>

\* decrypt_pack_data on the blob with one bit inverted
CTamper ==
    /\ cpc = "encrypted"
    /\ \E pos \in 1..Len(cBlob), bit \in 0..7 :
         /\ cIn' = FlipBit(cBlob, pos, bit)
         /\ cOut' = decrypt_pack_data(FlipBit(cBlob, pos, bit))
    /\ cpc' = "tampered"
    /\ UNCHANGED <<cS, cP, cBlob>>

\* decrypt_pack_data on a proper prefix of the blob
CTruncate ==
    /\ cpc = "encrypted"
    /\ \E n \in 0..(Len(cBlob) - 1) :
         /\ cIn' = Slice(cBlob, 0, n)
         /\ cOut' = decrypt_pack_data(Slice(cBlob, 0, n))
    /\ cpc' = "truncated"
    /\ UNCHANGED <<cS, cP, cBlob>>

\* decrypt_pack_data on bytes that are no envelope: any short junk
CJunk ==
    /\ cpc = "plain"
    /\ \E n \in 0..(NONCE_SIZE + TAG_SIZE + 1), b \in PayloadBytes :
         /\ cIn' = Fill(n, b)
         /\ cOut' = decrypt_pack_data(Fill(n, b))
    /\ cpc' = "junk"
    /\ UNCHANGED <<cS, cP, cBlob>>

\* decrypt_pack_data on an outer layer sealed with FIXED_KEY (which every
\* installation holds) around a combined_data of any length near the bound
CForge ==
    /\ cpc = "plain"
    /\ \E n \in 0..(NONCE_SIZE + KEY_SIZE + 2), b \in PayloadBytes, fixed_nonce \in Nonces :
         LET blob == fixed_nonce \o AeadEncrypt(FIXED_KEY, fixed_nonce, Fill(n, b))
         IN  /\ cIn' = blob
             /\ cOut' = decrypt_pack_data(blob)
    /\ cpc' = "forged"
    /\ UNCHANGED <<cS, cP, cBlob>>

-----------------------------------------------------------------------------
(* Specifications: each machine runs with the others at rest *)

CIdle ==
    /\ cpc = "off" /\ cS = <<>> /\ cP = <<>>
    /\ cBlob = <<>> /\ cIn = <<>> /\ cOut = NoResult

IIdle == ipc = "off" /\ iRemote = [kind |-> "absent"] /\ iInfo = NoInfo

SIdle ==
    /\ repo = [m \in Machines |-> MakeRepo(OID.A, TRUE, NoRemotes, OID.TA, "https")]
    /\ bucket = [k \in {} |-> <<>>]
    /\ clock = 0 /\ nops = 0 /\ last = NoLast /\ sent = NoSent

InitCrypto == CInit /\ IIdle /\ SIdle

Encrypt == CEncrypt /\ UNCHANGED <<ivars, svars>>

Decrypt == CDecrypt /\ UNCHANGED <<ivars, svars>>

Tamper == CTamper /\ UNCHANGED <<ivars, svars>>

Truncate == CTruncate /\ UNCHANGED <<ivars, svars>>

Junk == CJunk /\ UNCHANGED <<ivars, svars>>

Forge == CForge /\ UNCHANGED <<ivars, svars>>

NextCrypto == Encrypt \/ Decrypt \/ Tamper \/ Truncate \/ Junk \/ Forge

SpecCrypto == InitCrypto /\ [][NextCrypto]_vars

InitIdentity == IInit /\ CIdle /\ SIdle

Extract == IExtract /\ UNCHANGED <<cvars, svars>>

NextIdentity == Extract

SpecIdentity == InitIdentity /\ [][NextIdentity]_vars

Init == SInit /\ CIdle /\ IIdle

Up(m, raw) == CmdUp(m, raw) /\ UNCHANGED <<cvars, ivars>>

Down(m) == CmdDown(m) /\ UNCHANGED <<cvars, ivars>>

S == CmdS /\ UNCHANGED <<cvars, ivars>>

Next ==
    \/ \E m \in Machines, raw \in BOOLEAN : Up(m, raw)
    \/ \E m \in Machines : Down(m)
    \/ S

Spec == Init /\ [][Next]_vars

-----------------------------------------------------------------------------
(* Claims about the envelope, checked under SpecCrypto *)

\* C1: decrypting the blob that encrypt produced for (S, P) succeeds and
\* returns S followed by P: the first 40 bytes are S and the rest is P,
\* whatever ephemeral key and nonces were drawn.
C1_RoundTrip ==
    cpc = "decrypted" =>
        /\ cOut.kind = "ok"
        /\ Len(cOut.data) = 40 + Len(cP)
        /\ Slice(cOut.data, 0, 40) = cS
        /\ SliceFrom(cOut.data, 40) = cP

\* a blob for a non-empty payload was decrypted
C1_Witness == cpc = "decrypted" /\ cIn = cBlob /\ cP # <<>> /\ cOut.kind = "ok"

\* C2: for every blob encrypt produced and every single-bit flip of it (in the
\* outer nonce, the outer ciphertext or the outer tag), decrypt returns one of
\* its two decryption errors and no plaintext.
C2_TamperDetected ==
    cpc = "tampered" =>
        /\ cOut.kind = "err"
        /\ cOut.msg \in {ErrSecondRound, ErrFirstRound}
        /\ cOut.data = <<>>

\* a blob with a bit of its last byte (the outer tag) inverted was rejected
C2_Witness ==
    /\ cpc = "tampered"
    /\ cIn # cBlob
    /\ Len(cIn) = Len(cBlob)
    /\ cIn[Len(cIn)] # cBlob[Len(cBlob)]
    /\ cOut.kind = "err"

\* C3: an input of at most 12 bytes is rejected as too short before the outer
\* nonce is sliced or anything is decrypted; an input whose outer layer
\* decrypts to at most 44 bytes is rejected as too short before the inner
\* nonce and key are sliced or the inner layer is decrypted; decrypt never
\* slices past the end of a buffer.
C3_LengthBoundaries ==
    cpc \in {"decrypted", "tampered", "truncated", "junk", "forged"} =>
        /\ cOut.kind # "panic"
        /\ Len(cIn) <= 12 => cOut = DecErr(ErrTooShort, <<"check_len">>)
        /\ Len(cIn) > 12 =>
             LET outer == AeadDecrypt(FIXED_KEY, Slice(cIn, 0, 12), SliceFrom(cIn, 12))
             IN  (outer.ok /\ Len(outer.pt) <= 44) =>
                     cOut = DecErr(ErrCombinedTooShort,
                                   <<"check_len", "slice_nonce", "second_round_decrypt",
                                     "check_combined_len">>)

\* an authentic outer layer around exactly 44 bytes was rejected
C3_Witness ==
    /\ cpc = "forged"
    /\ Len(cIn) = 12 + 44 + 16
    /\ cOut.kind = "err"
    /\ cOut.msg = ErrCombinedTooShort

-----------------------------------------------------------------------------
(* Claims about extract_repo_info, checked under SpecIdentity *)

\* C6: for every origin URL on a known host whose path has at least two
\* segments, in the scp-style and in the URL-style dialect alike, the identity
\* is the last two path segments with a trailing .git stripped.
C6_KnownHostLastTwo ==
    (ipc = "parsed" /\ iRemote.kind = "url" /\ KnownHost(iRemote.host)
       /\ Len(iRemote.segs) >= 2) =>
        iInfo = RepoInfo(iRemote.segs[Len(iRemote.segs) - 1],
                         iRemote.segs[Len(iRemote.segs)])

\* C7: extract_repo_info never returns an error, and for an origin that is
\* absent, has no URL, or has a URL whose path has fewer than two segments it
\* returns exactly ("unknown", "unknown").
C7_FallbackUnknown ==
    ipc = "parsed" =>
        /\ iInfo.kind = "ok"
        /\ (iRemote.kind \in {"absent", "nourl"}
              \/ (iRemote.kind = "url" /\ Len(iRemote.segs) < 2)) =>
               iInfo = RepoInfo(T_unknown, T_unknown)

-----------------------------------------------------------------------------
(* Claims about up, down and s, checked under Spec *)

\* the objects of the pack the last `up` stored (its put succeeded)
StoredPack ==
    IF last.raw THEN index_pack(bucket[last.key]).objs
    ELSE index_pack(SliceFrom(decrypt_pack_data(bucket[last.key]).data, 40)).objs

\* the last command was an `up` whose pack is now in the bucket
UpStored == last.cmd = "up" /\ last.result \in {Ok, Err(ErrPresign)}

DownOfCleanUp ==
    /\ last.cmd = "down"
    /\ last.result = Ok
    /\ last.key \in DOMAIN sent
    /\ sent[last.key].cmd = "up"
    /\ sent[last.key].clean
    /\ sent[last.key].hidden = {}

IsRawKey(k) == Contains(k, T_headdash)

\* C8: once the object at a key .../head-<sha>.pack has been written its bytes
\* never change again, and a non-raw up writes only the key .../head.pack.
C8_RawNeverOverwritten ==
    [][/\ \A k \in DOMAIN bucket :
            IsRawKey(k) => (k \in DOMAIN bucket' /\ bucket'[k] = bucket[k])
       /\ (last'.cmd = "up" /\ ~last'.raw /\ bucket' # bucket) =>
            /\ EndsWith(last'.key, T_headpack)
            /\ \A k \in DOMAIN bucket' \ {last'.key} :
                   k \in DOMAIN bucket /\ bucket'[k] = bucket[k]]_vars

\* C9: with HEAD detached, up and down fail with the not-a-branch error before
\* anything else: no commit is written, no gateway operation is issued, the
\* repository and the bucket are unchanged.
C9_DetachedFailsFirst ==
    [][\A m \in Machines :
           (repo[m].head.kind # "branch" /\ nops' = nops + 1 /\ last'.m = m
              /\ last'.cmd \in {"up", "down"}) =>
               /\ last'.result = Err(ErrNotABranch)
               /\ last'.steps = <<"head">>
               /\ last'.marker = -1
               /\ repo' = repo
               /\ bucket' = bucket]_vars

\* an `up` was refused on a repository with HEAD detached and changes staged
C9_Witness ==
    /\ last.cmd = "up"
    /\ last.result = Err(ErrNotABranch)
    /\ repo[last.m].head.kind = "detached"
    /\ repo[last.m].index # TreeOf(head_commit(repo[last.m]))

\* C10: the staged-changes marker has HEAD as its only parent and the written
\* index as its tree, is the root of the revision walk (the stored pack holds
\* it), and up, whether it succeeds or fails, leaves every reference of the
\* repository (HEAD, branches, remote-tracking refs) where it was.
C10_MarkerUnattached ==
    [][(nops' = nops + 1 /\ last'.cmd = "up") =>
           /\ Refs(repo'[last'.m]) = Refs(repo[last'.m])
           /\ last'.marker # -1 =>
                /\ Parents(last'.marker) = {head_commit(repo[last'.m])}
                /\ TreeOf(last'.marker) = repo[last'.m].index
                /\ last'.root = last'.marker
                /\ {last'.marker} \cup TreeClosure(repo[last'.m].index)
                     \subseteq repo'[last'.m].objects
                /\ (last'.raw /\ bucket' # bucket) =>
                     last'.marker \in index_pack(bucket'[last'.key]).objs]_vars

\* an `up` with staged changes succeeded: its marker is in the object database
\* and the branch still points to its parent
C10_Witness ==
    /\ last.cmd = "up"
    /\ last.result = Ok
    /\ IsMarker(last.marker)
    /\ last.marker \in repo[last.m].objects
    /\ TreeOf(last.marker) # TreeOf(head_commit(repo[last.m]))
    /\ Parents(last.marker) = {repo[last.m].branches[repo[last.m].head.name]}

\* the steps of each command in the order the code runs them
UpSteps(raw) ==
    <<"head", "write_tree", "commit", "revwalk", "insert_walk", "write_buf", "identity">>
      \o (IF raw THEN <<>> ELSE <<"encrypt">>) \o <<"put", "presign">>

DownSteps == <<"head", "identity", "get", "decrypt", "slice_sha", "index_pack", "reset">>

SSteps == <<"read", "put", "presign">>

IsPrefix(p, q) == Len(p) <= Len(q) /\ SubSeq(q, 1, Len(p)) = p

\* the step a failure comes from
FailStep(result) ==
    CASE result = Err(ErrNotABranch) -> "head"
      [] result = Err(ErrPackBuild)  -> "insert_walk"
      [] result = Err(ErrPut)        -> "put"
      [] result = Err(ErrPresign)    -> "presign"
      [] result = Err(ErrGet)        -> "get"
      [] result = Err(ErrReadFile)   -> "read"
      [] result = Err(ErrIndexPack)  -> "index_pack"
      [] result = Err(ErrReset)      -> "reset"
      [] result.kind = "panic"       -> "slice_sha"
      [] OTHER                       -> "decrypt"

-----------------------------------------------------------------------------
(* C12 *)

\* the down step just taken succeeded on machine m, on an object that an up
\* wrote, and the receiver held what the sender left out
DownOfUp ==
    /\ nops' = nops + 1
    /\ last'.cmd = "down"
    /\ last'.result = Ok
    /\ last'.key \in DOMAIN sent
    /\ sent[last'.key].cmd = "up"
    /\ \A h \in sent[last'.key].hidden : Reachable(h) \subseteq repo[last'.m].objects

\* C12: whenever down succeeds on a receiver that held every object reachable
\* from the baseline the sender excluded (any receiver, an empty one included,
\* when the sender had no baseline), the receiver's object store afterwards
\* contains every object reachable from the commit its branch was reset to;
\* and with no baseline the pack alone contains all of them, so the store of
\* the receiver before the step does not matter
C12_SelfSufficient ==
    [][DownOfUp =>
         \A r \in {repo'[last'.m]} :
         \A tip \in {r.branches[r.head.name]} :
           /\ tip = sent[last'.key].marker
           /\ Reachable(tip) \subseteq r.objects
           /\ sent[last'.key].hidden = {} =>
                \A dec \in {decrypt_pack_data(bucket[last'.key])} :
                    Reachable(tip) \subseteq index_pack(SliceFrom(dec.data, 40)).objs]_vars

\* machine b, a clone at B, took the incremental pack that machine a built
\* with origin/dev at B hidden, and its branch is at a's marker above D
C12_Witness ==
    /\ last.cmd = "down"
    /\ last.m = "b"
    /\ last.result = Ok
    /\ last.key \in DOMAIN sent
    /\ sent[last.key].cmd = "up"
    /\ sent[last.key].m = "a"
    /\ sent[last.key].hidden = {OID.B}
    /\ Reachable(OID.B) \subseteq repo["b"].objects
    /\ repo["b"].branches["dev"] = sent[last.key].marker
    /\ OID.D \in Parents(repo["b"].branches["dev"])

-----------------------------------------------------------------------------
(* C13 *)

\* C13: apply is safe on every payload that decrypt can return: a down whose
\* decrypt succeeded, and which therefore entered apply_pack_to_repo, either
\* completes or returns a pack-indexing or reset error, and never ends in a
\* panic on the slice of bytes 0..40
C13_ApplySafe ==
    (last.cmd = "down" /\ \E i \in 1..Len(last.steps) : last.steps[i] = "slice_sha") =>
        last.result \in {Ok, Err(ErrIndexPack), Err(ErrReset)}


====
